---- MODULE Spec2Model ----
(***************************************************************************)
(* Model of the region library (src/src/index.ts, src/src/region-funcs.ts). *)
(*                                                                         *)
(* A region answers isInRegion(point) and offers enteredRegion/leftRegion, *)
(* promises driven by a polling loop that suspends on the region's step    *)
(* function.  The model keeps one record per promise created by            *)
(* enteredRegion/leftRegion (`waits`) and one per Promise.race created by  *)
(* RegionUnion (`races`), the clock read by os.clock() (`now`) and the     *)
(* tracked part's Position (`pos`).  `probe` holds the last direct call of  *)
(* isInRegion and `built` the last BasePartRegion constructed, with the    *)
(* size it was given.                                                      *)
(*                                                                         *)
(* Vectors are triples of integers.  A CFrame is a position and a number   *)
(* of quarter turns about the Y axis.  Promises follow the roblox-ts       *)
(* Promise the code is written against: resolve()/reject() change a        *)
(* promise only while it is Started, cancel() makes a Started promise      *)
(* Cancelled and runs its onCancel hook, Promise.race settles with the     *)
(* first member to settle and cancels the other members.                   *)
(*                                                                         *)
(* A behaviour of Spec follows one call of enteredRegion or leftRegion     *)
(* from its start; SpecPair follows two calls on one region, SpecQuery the *)
(* direct calls of isInRegion, SpecBuild the constructor.                  *)
(***************************************************************************)
EXTENDS Integers, Sequences, FiniteSets, TLC

VARIABLES now, pos, waits, races, probe, built

vars == <<now, pos, waits, races, probe, built>>

\* ------------------------------------------------------------------ bounds

\* The last reading of the clock.
MaxClock == 3

\* The most step-function calls one wait makes.
MaxSteps == 2

\* The most members of a union whose waits are raced.
MaxMembers == 2

\* The largest component of a size handed to the constructor.
MaxExtent == 4

\* The farthest the approaching part starts from the origin.
MaxDist == 10

\* The largest radius of the ball the approaching part enters.
MaxRadius == 5

\* The largest coordinate of a point isInRegion is asked about.
MaxCoord == 4

\* ------------------------------------------------------- vectors and frames

Abs(a) == IF a < 0 THEN -a ELSE a

Max2(a, b) == IF a >= b THEN a ELSE b

Max3(a, b, c) == Max2(a, Max2(b, c))

Vector3(x, y, z) == <<x, y, z>>

VSub(a, b) == <<a[1] - b[1], a[2] - b[2], a[3] - b[3]>>

\* The square of Vector3.Magnitude.
MagnitudeSq(v) == v[1] * v[1] + v[2] * v[2] + v[3] * v[3]

CFrame(position, turns) == [Position |-> position, turns |-> turns]

RECURSIVE UnTurn(_, _)
\* The inverse of `n` quarter turns about Y applied to the vector v.
UnTurn(v, n) == IF n = 0 THEN v ELSE UnTurn(<<-v[3], v[2], v[1]>>, n - 1)

\* CFrame:PointToObjectSpace(point).
PointToObjectSpace(cf, point) == UnTurn(VSub(point, cf.Position), cf.turns)

\* |a / (d / 2)| <= 1 in floating point: a/0 is an infinity or NaN, never <= 1.
AbsRatioLeq1(a, d) == d > 0 /\ 2 * Abs(a) <= d

\* ------------------------------------------------------- region-funcs.ts

\* A ball without its surface.
BallShapeOpen(point, position, size) ==
    MagnitudeSq(VSub(point, position.Position)) < size[1] * size[1]

BallShape(point, position, size) ==
    MagnitudeSq(VSub(point, position.Position)) <= size[1] * size[1]

CylinderShape(point, position, size) ==
    LET loc == PointToObjectSpace(position, point)
    IN  /\ 2 * Abs(loc[1]) <= size[1]
        /\ 2 * Abs(loc[3]) <= size[1]
        /\ AbsRatioLeq1(loc[2], size[1])

BlockShape(point, position, size) ==
    LET loc == PointToObjectSpace(position, point)
    IN  /\ AbsRatioLeq1(loc[1], size[1])
        /\ AbsRatioLeq1(loc[2], size[2])
        /\ AbsRatioLeq1(loc[3], size[3])

isInShape(point, position, size, shape) ==
    CASE shape = "Ball" -> BallShape(point, position, size)
      [] shape = "Cylinder" -> CylinderShape(point, position, size)
      [] shape = "Block" -> BlockShape(point, position, size)
      [] OTHER -> FALSE

\* ------------------------------------------------------------ the regions

\* A constructor that stores the size as it is given.
BasePartRegionRaw(location, size, shape) ==
    [class |-> "BasePartRegion", location |-> location, shape |-> shape,
     size |-> size]

\* new BasePartRegion(location, size, shape): the constructor's switch.
BasePartRegion(location, size, shape) ==
    [class |-> "BasePartRegion", location |-> location, shape |-> shape,
     size |-> CASE shape = "Ball" ->
                     LET ballRadius == Max3(size[1], size[2], size[3])
                     IN  Vector3(ballRadius, ballRadius, ballRadius)
                [] shape = "Cylinder" ->
                     LET cylinderRadius == Max2(size[1], size[3])
                     IN  Vector3(cylinderRadius, size[2], cylinderRadius)
                [] OTHER -> size]

RegionUnion(regions) == [class |-> "RegionUnion", regions |-> regions]

RegionNegation(region, negation) ==
    [class |-> "RegionNegation", region |-> region, negation |-> negation]

\* `!!x` for an array x: an array, even an empty one, is truthy.
ArrayTruthy(arr) == TRUE

RECURSIVE isInRegion(_, _)
RECURSIVE getRegions(_, _)

\* A getRegions that returns every member, whatever the point.
getRegionsAll(u, point) == u.regions

\* RegionUnion.getRegions: regions.filter((region) => region.isInRegion(point)).
getRegions(u, point) ==
    LET Test(region) == isInRegion(region, point)
    IN  SelectSeq(u.regions, Test)

\* A negation that forgets to exclude the subtracted region.
NegationIsInBaseOnly(inRegion, inNegation) == inRegion

\* RegionNegation.isInRegion.
NegationIsIn(inRegion, inNegation) == inRegion /\ ~inNegation

isInRegion(r, point) ==
    CASE r.class = "BasePartRegion" ->
            isInShape(point, r.location, r.size, r.shape)
      [] r.class = "RegionUnion" -> ArrayTruthy(getRegions(r, point))
      [] r.class = "RegionNegation" ->
            NegationIsIn(isInRegion(r.region, point),
                         isInRegion(r.negation, point))

\* ------------------------------------------------------- the sample inputs

Origin == Vector3(0, 0, 0)

\* A ball of radius 2 about the origin (raw size 2 x 1 x 1).
PartA == BasePartRegion(CFrame(Origin, 0), Vector3(2, 1, 1), "Ball")

\* A block covering 2 <= x <= 6, |y| <= 1, |z| <= 1, given turned a quarter.
PartB == BasePartRegion(CFrame(Vector3(4, 0, 0), 1), Vector3(2, 2, 4), "Block")

\* A ball of radius 1 about the origin.
PartC == BasePartRegion(CFrame(Origin, 0), Vector3(1, 1, 1), "Ball")

\* A cylinder about the origin.
PartD == BasePartRegion(CFrame(Origin, 0), Vector3(2, 4, 1), "Cylinder")

Union2 == RegionUnion(<<PartA, PartB>>)

Union1 == RegionUnion(<<PartC>>)

Union0 == RegionUnion(<<>>)

Union3 == RegionUnion(<<PartC, PartB, PartA>>)

\* The shell between radius 1 and radius 2.
Shell == RegionNegation(PartA, PartC)

\* A negation whose base is a union.
NegUnion == RegionNegation(Union1, PartB)

\* Regions whose enteredRegion/leftRegion run the polling loop themselves.
PollRegions == {PartA, PartB, Shell}

UnionRegions == {Union3, Union2, Union1, Union0}

AllRegions == PollRegions \cup UnionRegions \cup {PartC, PartD, NegUnion}

\* Positions the tracked part takes.
TrackPoints == {Vector3(0, 0, 0), Vector3(2, 0, 0), Vector3(3, 0, 0), Vector3(4, 2, 0)}

\* Points isInRegion is asked about.
QueryPoints == {Vector3(x, y, 0) : x \in 0..MaxCoord, y \in 0..2}

\* `timeout?: number`: undefined, or a number of clock units.
Undefined == -1

Timeouts == {Undefined, 0, 1, 2}

\* The truthiness of `timeout` in `active && timeout && ...`: undefined and 0
\* are falsy.
Truthy(timeout) == timeout # Undefined /\ timeout # 0

\* ------------------------------------------------------------ the promises

\* resolve(): a promise that is no longer Started keeps its status.
Resolve(w) ==
    [w EXCEPT !.awaiting = FALSE,
              !.status = IF @ = "Started" THEN "Resolved" ELSE @]

\* reject(); return.
Reject(w) ==
    [w EXCEPT !.awaiting = FALSE,
              !.status = IF @ = "Started" THEN "Rejected" ELSE @]

\* A cancellation that only runs the hook and leaves the promise Started.
CancelWaitFlagOnly(w) == [w EXCEPT !.active = FALSE]

\* promise.cancel(): a Started promise becomes Cancelled and its hook,
\* onCancel(() => (active = false)), runs.
CancelWait(w) ==
    IF w.status = "Started"
    THEN [w EXCEPT !.status = "Cancelled", !.active = FALSE]
    ELSE w

\* A RegionNegation that awaits the step function it inherits from Region.
StepOwnerSelf(r) == r

\* The region whose step function a wait on r awaits: this.step in a
\* BasePartRegion, this.region.step in a RegionNegation.
StepOwner(r) == IF r.class = "RegionNegation" THEN r.region ELSE r

\* `await this.step()` (`await this.region.step()` in a RegionNegation):
\* `steps` counts the wait's step-function calls, `stepped` holds the regions
\* whose step function it called.
Suspend(w) ==
    [w EXCEPT !.awaiting = TRUE, !.steps = @ + 1,
              !.stepped = @ \cup {StepOwner(w.region)}]

\* Both loops written as leftRegion's: enteredRegion waits while inside.
LoopCondWhileInside(kind, inside) == inside

\* Both loops written as enteredRegion's: leftRegion waits while outside.
LoopCondWhileOutside(kind, inside) == ~inside

\* The loop's condition: `!this.isInRegion(part.Position)` in enteredRegion,
\* `this.isInRegion(part.Position)` in leftRegion.
LoopCond(kind, inside) == IF kind = "entered" THEN ~inside ELSE inside

\* One evaluation of the while condition (`polls` counts them): the loop
\* body's await, or the resolve() after the loop.
Poll(w) ==
    LET v == [w EXCEPT !.polls = @ + 1]
    IN  IF LoopCond(v.kind, isInRegion(v.region, pos)) THEN Suspend(v) ELSE Resolve(v)

\* `active && timeout && os.clock() - start > timeout`.
TimedOut(w) == w.active /\ Truthy(w.timeout) /\ now - w.start > w.timeout

\* The poller from the completion of its awaited step to its next await or
\* to its end.
Resume(w) ==
    IF TimedOut(w) THEN Reject(w) ELSE Poll([w EXCEPT !.awaiting = FALSE])

\* The closure of one call: `const start = os.clock(); let active = true`.
Closure(r, kind, timeout, race) ==
    [region |-> r, kind |-> kind, timeout |-> timeout, start |-> now,
     active |-> TRUE, status |-> "Started", awaiting |-> FALSE,
     steps |-> 0, polls |-> 0, stepped |-> {}, race |-> race]

\* A loop that awaits its step before it first tests its condition.
NewWaitStepFirst(r, kind, timeout, race) == Suspend(Closure(r, kind, timeout, race))

\* new Promise(async (resolve, reject, onCancel) => ...): the executor up to
\* its first await or to its end.
NewWait(r, kind, timeout, race) == Poll(Closure(r, kind, timeout, race))

Settled(status) == status \in {"Resolved", "Rejected"}

\* A race that waits for every member to settle before it settles.
RaceStatusAll(st, ws, members) ==
    LET all == 1..Len(members)
    IN  IF st = "Started" /\ all # {} /\ \A k \in all : Settled(ws[members[k]].status)
        THEN ws[members[1]].status
        ELSE st

\* A race that overlooks rejections: it settles only with a resolved member.
RaceStatusAny(st, ws, members) ==
    IF st = "Started" /\ \E k \in 1..Len(members) : ws[members[k]].status = "Resolved"
    THEN "Resolved"
    ELSE st

\* Promise.race over the waits at `members` of ws, the race being in status
\* `st`: it takes the outcome of the first settled member.
RaceStatus(st, ws, members) ==
    LET done == {k \in 1..Len(members) : Settled(ws[members[k]].status)}
    IN  IF st = "Started" /\ done # {}
        THEN ws[members[CHOOSE k \in done : \A l \in done : k <= l]].status
        ELSE st

\* Promise.race once it is settled or cancelled cancels its members.
RaceCancel(st, ws, members) ==
    LET mem == {members[k] : k \in 1..Len(members)}
    IN  [i \in 1..Len(ws) |->
            IF st # "Started" /\ i \in mem THEN CancelWait(ws[i]) ELSE ws[i]]

\* The races and waits after the waits ws changed: every race takes its
\* members' outcome.
Propagate(rs, ws) ==
    LET rs2 == [j \in 1..Len(rs) |->
                  [rs[j] EXCEPT !.status = RaceStatus(@, ws, rs[j].members)]]
        InRace(i) == ws[i].race # 0
    IN  <<rs2,
          [i \in 1..Len(ws) |->
              IF InRace(i)
              THEN RaceCancel(rs2[ws[i].race].status, ws, rs2[ws[i].race].members)[i]
              ELSE ws[i]]>>

\* ------------------------------------------------------------ the actions

Init ==
    /\ now = 0
    /\ pos \in TrackPoints
    /\ waits = <<>>
    /\ races = <<>>
    /\ probe = [asked |-> FALSE, region |-> Union0, point |-> Origin, result |-> FALSE]
    /\ built = [raw |-> PartC.size, region |-> PartC]

\* No call has been made yet.
NoCall == waits = <<>> /\ races = <<>>

\* BasePartRegion.enteredRegion / RegionNegation.enteredRegion.
EnteredRegion(r, timeout) ==
    /\ NoCall
    /\ waits' = Append(waits, NewWait(r, "entered", timeout, 0))
    /\ UNCHANGED <<now, pos, races, probe, built>>

\* BasePartRegion.leftRegion / RegionNegation.leftRegion.
LeftRegion(r, timeout) ==
    /\ NoCall
    /\ waits' = Append(waits, NewWait(r, "left", timeout, 0))
    /\ UNCHANGED <<now, pos, races, probe, built>>

\* Promise.race(regions.map((region) => region.<kind>Region(part, timeout))).
RaceOver(u, regions, kind, timeout) ==
    LET n == Len(regions)
        j == Len(races) + 1
        members == [k \in 1..n |-> Len(waits) + k]
        ws == waits \o [k \in 1..n |-> NewWait(regions[k], kind, timeout, j)]
        rs == Append(races, [region |-> u, kind |-> kind, status |-> "Started",
                             members |-> members])
        out == Propagate(rs, ws)
    IN  /\ NoCall
        /\ Len(u.regions) <= MaxMembers
        /\ races' = out[1]
        /\ waits' = out[2]
        /\ UNCHANGED <<now, pos, probe, built>>

\* RegionUnion.enteredRegion.
UnionEnteredRegion(u, timeout) == RaceOver(u, u.regions, "entered", timeout)

\* RegionUnion.leftRegion.
UnionLeftRegion(u, timeout) ==
    RaceOver(u, getRegions(u, pos), "left", timeout)

\* The step function awaited by wait i completes and its poller runs on.
StepDone(i) ==
    /\ waits[i].awaiting
    /\ Resume(waits[i]).steps <= MaxSteps
    /\ LET out == Propagate(races, [waits EXCEPT ![i] = Resume(@)])
       IN  /\ races' = out[1]
           /\ waits' = out[2]
    /\ UNCHANGED <<now, pos, probe, built>>

\* A cancellation whose hook clears a flag shared by every wait.
CancelShared(i) ==
    /\ waits[i].race = 0
    /\ waits[i].status = "Started"
    /\ waits' = [k \in 1..Len(waits) |-> CancelWait(waits[k])]
    /\ UNCHANGED <<now, pos, races, probe, built>>

\* The caller cancels the promise enteredRegion/leftRegion returned to it.
Cancel(i) ==
    /\ waits[i].race = 0
    /\ waits[i].status = "Started"
    /\ waits' = [waits EXCEPT ![i] = CancelWait(@)]
    /\ UNCHANGED <<now, pos, races, probe, built>>

\* The caller cancels the promise a RegionUnion returned to it.
CancelRace(j) ==
    /\ races[j].status = "Started"
    /\ LET rs == [races EXCEPT ![j].status = "Cancelled"]
           out == Propagate(rs, waits)
       IN  /\ races' = out[1]
           /\ waits' = out[2]
    /\ UNCHANGED <<now, pos, probe, built>>

\* os.clock() advances.
Tick ==
    /\ now < MaxClock
    /\ now' = now + 1
    /\ UNCHANGED <<pos, waits, races, probe, built>>

\* The tracked part moves.
Move(p) ==
    /\ p # pos
    /\ pos' = p
    /\ UNCHANGED <<now, waits, races, probe, built>>

\* region.isInRegion(point), called directly.
Query(r, p) ==
    /\ probe' = [asked |-> TRUE, region |-> r, point |-> p,
                 result |-> isInRegion(r, p)]
    /\ UNCHANGED <<now, pos, waits, races, built>>

Next ==
    \/ \E r \in PollRegions, t \in Timeouts : EnteredRegion(r, t)
    \/ \E r \in PollRegions, t \in Timeouts : LeftRegion(r, t)
    \/ \E u \in UnionRegions, t \in Timeouts : UnionEnteredRegion(u, t)
    \/ \E u \in UnionRegions, t \in Timeouts : UnionLeftRegion(u, t)
    \/ \E i \in 1..Len(waits) : StepDone(i)
    \/ \E i \in 1..Len(waits) : Cancel(i)
    \/ \E j \in 1..Len(races) : CancelRace(j)
    \/ Tick
    \/ \E p \in TrackPoints : Move(p)

Spec == Init /\ [][Next]_vars

\* isInRegion alone, over every sample region and point.
QueryNext == \E r \in AllRegions, p \in QueryPoints : Query(r, p)

SpecQuery == Init /\ [][QueryNext]_vars

\* A second enteredRegion/leftRegion call on the region of a first call that
\* may still be pending.
SecondCall(kind, timeout) ==
    /\ Len(waits) = 1
    /\ races = <<>>
    /\ waits' = Append(waits, NewWait(waits[1].region, kind, timeout, 0))
    /\ UNCHANGED <<now, pos, races, probe, built>>

\* The timeouts of the two calls: none, and one the clock can exceed.
PairTimeouts == {Undefined, 1}

PairNext ==
    \/ \E r \in PollRegions, t \in PairTimeouts : EnteredRegion(r, t)
    \/ \E r \in PollRegions, t \in PairTimeouts : LeftRegion(r, t)
    \/ \E kind \in {"entered", "left"}, t \in PairTimeouts : SecondCall(kind, t)
    \/ \E i \in 1..Len(waits) : StepDone(i)
    \/ \E i \in 1..Len(waits) : Cancel(i)
    \/ Tick
    \/ \E p \in TrackPoints : Move(p)

\* Two calls on one region, their pollers interleaved.
SpecPair == Init /\ [][PairNext]_vars

\* The clock advances while wait 1 is suspended: by one over each suspension.
AdvanceTick ==
    /\ waits # <<>>
    /\ waits[1].awaiting
    /\ now - waits[1].start < waits[1].steps
    /\ now < MaxClock
    /\ now' = now + 1
    /\ UNCHANGED <<pos, waits, races, probe, built>>

\* The step function awaited by wait 1 completes, the clock having advanced
\* since it was called, and the poller runs on.
AdvanceStep ==
    /\ waits # <<>>
    /\ waits[1].awaiting
    /\ now - waits[1].start = waits[1].steps
    /\ waits' = [waits EXCEPT ![1] = Resume(@)]
    /\ UNCHANGED <<now, pos, races, probe, built>>

AdvanceNext ==
    \/ \E r \in PollRegions, t \in Timeouts : EnteredRegion(r, t)
    \/ \E r \in PollRegions, t \in Timeouts : LeftRegion(r, t)
    \/ AdvanceTick
    \/ AdvanceStep
    \/ \E i \in 1..Len(waits) : Cancel(i)
    \/ \E p \in TrackPoints : Move(p)

\* One call on a BasePartRegion or RegionNegation, every step function call
\* completing after the clock has advanced by one.
SpecAdvance == Init /\ [][AdvanceNext]_vars

\* A ball of the given radius about the origin.
BallAt(radius) == BasePartRegion(CFrame(Origin, 0), Vector3(radius, 1, 1), "Ball")

\* The balls the approaching part enters.
ApproachBalls == {BallAt(radius) : radius \in 1..MaxRadius}

\* The part starts on the X axis, at a whole distance from the origin.
InitApproach ==
    /\ now = 0
    /\ pos \in {Vector3(d, 0, 0) : d \in 0..MaxDist}
    /\ waits = <<>>
    /\ races = <<>>
    /\ probe = [asked |-> FALSE, region |-> Union0, point |-> Origin, result |-> FALSE]
    /\ built = [raw |-> PartC.size, region |-> PartC]

\* One tick passes while the wait is suspended: the clock advances by one and
\* the part moves one unit toward the origin.
ApproachTick ==
    /\ waits # <<>>
    /\ waits[1].awaiting
    /\ now < waits[1].steps
    /\ now' = now + 1
    /\ pos' = Vector3(IF pos[1] > 0 THEN pos[1] - 1 ELSE 0, 0, 0)
    /\ UNCHANGED <<waits, races, probe, built>>

\* The step function completes at the end of the tick and the poller runs on.
ApproachStep ==
    /\ waits # <<>>
    /\ waits[1].awaiting
    /\ now = waits[1].steps
    /\ waits' = [waits EXCEPT ![1] = Resume(@)]
    /\ UNCHANGED <<now, pos, races, probe, built>>

ApproachNext ==
    \/ \E ball \in ApproachBalls : EnteredRegion(ball, Undefined)
    \/ ApproachTick
    \/ ApproachStep

\* enteredRegion on a ball about the origin, the part approaching it one unit
\* a tick and the step function completing once a tick.
SpecApproach == InitApproach /\ [][ApproachNext]_vars

\* Enum.PartType values a BasePartRegion is constructed with.
Shapes == {"Ball", "Cylinder", "Block"}

\* Sizes handed to the constructor.
Sizes == {Vector3(x, y, z) : x \in 1..MaxExtent, y \in 1..MaxExtent, z \in 1..MaxExtent}

\* new BasePartRegion(location, size, shape).
Construct(size, shape) ==
    /\ built' = [raw |-> size,
                 region |-> BasePartRegion(CFrame(Origin, 0), size, shape)]
    /\ UNCHANGED <<now, pos, waits, races, probe>>

\* new BasePartRegion(r.location, r.size, r.shape) for the region r built last.
Reconstruct ==
    /\ built' = [raw |-> built.region.size,
                 region |-> BasePartRegion(built.region.location,
                                           built.region.size, built.region.shape)]
    /\ UNCHANGED <<now, pos, waits, races, probe>>

BuildNext ==
    \/ \E size \in Sizes, shape \in Shapes : Construct(size, shape)
    \/ Reconstruct

\* The constructor alone, over every sample size and shape.
SpecBuild == Init /\ [][BuildNext]_vars

\* ---------------------------------------------------------- the properties

\* Wait i evaluated its loop condition in the step, and awaits again.
SuspendedAgain(i) ==
    IF i > Len(waits) THEN waits'[i].steps > 0
    ELSE waits'[i].steps > waits[i].steps

\* Wait i became Resolved in the step.
NewlyResolved(i) ==
    /\ waits'[i].status = "Resolved"
    /\ i <= Len(waits) => waits[i].status = "Started"

\* Wait i, pending and awaiting its step before the step, resumed in it.
ResumedPending(i) ==
    /\ i <= Len(waits)
    /\ waits[i].status = "Started"
    /\ waits[i].awaiting
    /\ waits'[i] # waits[i]
    /\ waits'[i].status # "Cancelled"

PartWaits(kind) ==
    {i \in 1..Len(waits') : /\ waits'[i].kind = kind
                            /\ waits'[i].region.class = "BasePartRegion"}

\* C1: an enteredRegion wait on a BasePartRegion becomes resolved only in a
\* step whose poll samples a position inside the region, and a poll after
\* which it awaits its step again sampled a position outside: it resolves
\* at the first poll that samples a position inside, and at no other.
C1_EnteredResolvesAtFirstInside ==
    [][\A i \in PartWaits("entered") :
          /\ NewlyResolved(i) => isInRegion(waits'[i].region, pos')
          /\ SuspendedAgain(i) => ~isInRegion(waits'[i].region, pos')]_vars

C1_Witness ==
    \E i \in 1..Len(waits) :
        /\ waits[i].kind = "entered"
        /\ waits[i].region.class = "BasePartRegion"
        /\ waits[i].status = "Resolved"
        /\ waits[i].steps = MaxSteps
        /\ waits[i].race = 0

\* C2: a leftRegion wait on a BasePartRegion becomes resolved only in a step
\* whose poll samples a position outside the region, and a poll after which
\* it awaits its step again sampled a position inside.
C2_LeftResolvesAtFirstOutside ==
    [][\A i \in PartWaits("left") :
          /\ NewlyResolved(i) => ~isInRegion(waits'[i].region, pos')
          /\ SuspendedAgain(i) => isInRegion(waits'[i].region, pos')]_vars

C2_Witness ==
    \E i \in 1..Len(waits) :
        /\ waits[i].kind = "left"
        /\ waits[i].region.class = "BasePartRegion"
        /\ waits[i].status = "Resolved"
        /\ waits[i].steps = MaxSteps
        /\ waits[i].race = 0

\* C3: a wait that was given a timeout and is not cancelled resolves only at
\* a poll made while the elapsed time does not exceed the timeout, and
\* rejects when it resumes with the elapsed time above the timeout.
C3_TimeoutRejects ==
    [][\A i \in 1..Len(waits') :
          waits'[i].timeout # Undefined =>
              /\ NewlyResolved(i) => now' - waits'[i].start <= waits'[i].timeout
              /\ (ResumedPending(i) /\ now - waits[i].start > waits[i].timeout)
                    => waits'[i].status = "Rejected"]_vars

\* C4: a wait whose cancellation hook has run (active is false) is neither
\* resolved nor rejected, and a cancelled promise, a wait's or a union's,
\* stays cancelled in every later state.
C4_CancelledNeverSettles ==
    /\ [](\A i \in 1..Len(waits) : ~waits[i].active => waits[i].status = "Cancelled")
    /\ [][/\ \A i \in 1..Len(waits) :
               waits[i].status = "Cancelled" => waits'[i].status = "Cancelled"
          /\ \A j \in 1..Len(races) :
               races[j].status = "Cancelled" => races'[j].status = "Cancelled"]_vars

\* A cancelled wait whose poller has found its condition and called resolve().
C4_Witness ==
    \E i \in 1..Len(waits) :
        /\ ~waits[i].active
        /\ ~waits[i].awaiting
        /\ waits[i].race = 0
        /\ waits[i].status = "Cancelled"

\* C5: a cancelled wait invokes no step function: its count of step-function
\* calls never grows again.
C5_CancelledStopsStepping ==
    [][\A i \in 1..Len(waits) :
          waits[i].status = "Cancelled" => waits'[i].steps = waits[i].steps]_vars

\* C6: a RegionUnion's isInRegion(point) is true exactly when at least one
\* of its members' isInRegion(point) is true (false for no members).
C6_UnionIsAnyMember ==
    (probe.asked /\ probe.region.class = "RegionUnion") =>
        (probe.result <=>
            \E k \in 1..Len(probe.region.regions) :
                isInRegion(probe.region.regions[k], probe.point))

\* C7: a RegionNegation's isInRegion(point) is true exactly when its base's
\* isInRegion(point) is true and its subtracted region's is false.
C7_NegationIsBaseAndNotSubtract ==
    (probe.asked /\ probe.region.class = "RegionNegation") =>
        (probe.result <=>
            (/\ isInRegion(probe.region.region, probe.point)
             /\ ~isInRegion(probe.region.negation, probe.point)))

\* A point inside both the base and the subtracted region, found outside.
C7_Witness ==
    /\ probe.asked
    /\ probe.region = Shell
    /\ isInRegion(PartA, probe.point)
    /\ isInRegion(PartC, probe.point)
    /\ ~probe.result

EnteredRaces == {j \in 1..Len(races') : races'[j].kind = "entered"}

MemberWaits(j) == {races'[j].members[k] : k \in 1..Len(races'[j].members)}

\* C8: RegionUnion.enteredRegion starts one enteredRegion wait per member,
\* in order; it is resolved exactly in the states in which a member wait is
\* resolved, and it becomes resolved only in a step in which a member wait
\* becomes resolved by a poll that samples a position inside that member.
C8_UnionEnteredResolvesWithFirstMember ==
    [][\A j \in EnteredRaces :
          /\ [k \in 1..Len(races'[j].members) |-> waits'[races'[j].members[k]].region]
                = races'[j].region.regions
          /\ \A i \in MemberWaits(j) : waits'[i].kind = "entered" /\ waits'[i].race = j
          /\ races'[j].status = "Resolved"
                <=> \E i \in MemberWaits(j) : waits'[i].status = "Resolved"
          /\ (races'[j].status = "Resolved" /\ (j <= Len(races) => races[j].status = "Started"))
                => \E i \in MemberWaits(j) :
                      NewlyResolved(i) /\ isInRegion(waits'[i].region, pos')]_vars

\* A union resolved by one member's later poll while another was pending.
C8_Witness ==
    \E j \in 1..Len(races) :
        /\ races[j].kind = "entered"
        /\ races[j].status = "Resolved"
        /\ Len(races[j].members) > 1
        /\ \E i \in 1..Len(waits) : waits[i].race = j /\ waits[i].status = "Resolved"
                                       /\ waits[i].steps > 0
        /\ \E i \in 1..Len(waits) : waits[i].race = j /\ waits[i].status = "Cancelled"

\* C9: once RegionUnion.enteredRegion is resolved, no member wait invokes
\* its step function again.
C9_NoPollerAfterUnionResolves ==
    [][\A j \in 1..Len(races) :
          (races[j].kind = "entered" /\ races[j].status = "Resolved") =>
              \A i \in 1..Len(waits) :
                  waits[i].race = j => waits'[i].steps = waits[i].steps]_vars

\* C10 as stated: RegionUnion.enteredRegion is rejected only when every
\* member wait is rejected or there is no member.
C10_RejectsOnlyIfAllRejected ==
    \A j \in 1..Len(races) :
        (races[j].kind = "entered" /\ races[j].status = "Rejected") =>
            \A k \in 1..Len(races[j].members) :
                waits[races[j].members[k]].status = "Rejected"

\* C10 as amended: RegionUnion.enteredRegion is rejected exactly when a
\* member wait is rejected, whatever the other members' waits are; with no
\* member it is never rejected.
C10_RejectsWithFirstRejection ==
    \A j \in 1..Len(races) :
        races[j].kind = "entered" =>
            (races[j].status = "Rejected"
                <=> \E k \in 1..Len(races[j].members) :
                       waits[races[j].members[k]].status = "Rejected")

\* A union rejected by one member's timeout while another member was pending.
C10_Witness ==
    \E j \in 1..Len(races) :
        /\ races[j].kind = "entered"
        /\ races[j].status = "Rejected"
        /\ \E k \in 1..Len(races[j].members) :
              waits[races[j].members[k]].status = "Cancelled"

\* C11: RegionUnion.leftRegion called while no member contains the part's
\* position (a union of no members included) is resolved at once: a
\* leftRegion race over no member wait is resolved.
C11_UnionLeftOutsideResolvesAtOnce ==
    \A j \in 1..Len(races) :
        (races[j].kind = "left" /\ races[j].members = <<>>) =>
            races[j].status = "Resolved"

RECURSIVE Containing(_, _)
\* The members of `regions` that contain the point p, in order.
Containing(regions, p) ==
    IF regions = <<>> THEN <<>>
    ELSE (IF isInRegion(Head(regions), p) THEN <<Head(regions)>> ELSE <<>>)
            \o Containing(Tail(regions), p)

LeftRaces == {j \in 1..Len(races') : races'[j].kind = "left"}

\* C12: RegionUnion.leftRegion starts its leftRegion waits on the members
\* that contain the part's position at the call, in member order, and on no
\* other: the waits of the call are these from then on, so that a member
\* left out is never polled and its step function never called, wherever
\* the part moves later.
C12_UnionLeftWaitsOnContainingMembers ==
    [][\A j \in LeftRaces :
          /\ j > Len(races) =>
                [k \in 1..Len(races'[j].members) |-> waits'[races'[j].members[k]].region]
                    = Containing(races'[j].region.regions, pos')
          /\ j <= Len(races) =>
                /\ races'[j].members = races[j].members
                /\ Len(waits') = Len(waits)
                /\ \A i \in 1..Len(waits) : waits'[i].region = waits[i].region
          /\ \A i \in 1..Len(waits') :
                waits'[i].race = j =>
                    /\ waits'[i].kind = "left"
                    /\ \E k \in 1..Len(races'[j].members) : races'[j].members[k] = i]_vars

\* A leftRegion race that left a member out, resolved after the part moved
\* into that member.
C12_Witness ==
    \E j \in 1..Len(races) :
        /\ races[j].kind = "left"
        /\ races[j].status = "Resolved"
        /\ races[j].members # <<>>
        /\ \E k \in 1..Len(races[j].region.regions) :
              /\ isInRegion(races[j].region.regions[k], pos)
              /\ \A i \in 1..Len(waits) : waits[i].region # races[j].region.regions[k]

\* The loop condition of wait i at the position sampled in the step: the
\* awaited condition is not satisfied.
NotSatisfied(i) ==
    IF waits'[i].kind = "entered" THEN ~isInRegion(waits'[i].region, pos')
    ELSE isInRegion(waits'[i].region, pos')

\* C16: within one wait, checks and suspensions alternate, a check first:
\* the wait has made as many checks as step-function calls while it awaits
\* a step, and one more once its loop has ended with a satisfied check; a
\* step function is called only in a step that made one check and found the
\* condition not satisfied, and a completed suspension is followed by one
\* check at most before the next suspension.
C16_ChecksAndSuspensionsAlternate ==
    /\ [](\A i \in 1..Len(waits) :
            /\ waits[i].steps <= waits[i].polls
            /\ waits[i].polls <= waits[i].steps + 1
            /\ waits[i].awaiting => waits[i].polls = waits[i].steps
            /\ (waits[i].steps = 0) => (waits[i].polls = 1 /\ ~waits[i].awaiting))
    /\ [][\A i \in 1..Len(waits') :
            LET steps0 == IF i <= Len(waits) THEN waits[i].steps ELSE 0
                polls0 == IF i <= Len(waits) THEN waits[i].polls ELSE 0
            IN  /\ waits'[i].steps \in {steps0, steps0 + 1}
                /\ waits'[i].polls \in {polls0, polls0 + 1}
                /\ waits'[i].steps = steps0 + 1 =>
                      /\ waits'[i].polls = polls0 + 1
                      /\ NotSatisfied(i)
                      /\ i <= Len(waits) => waits[i].awaiting
                /\ (waits'[i].polls = polls0 + 1 /\ waits'[i].steps = steps0) =>
                      /\ ~NotSatisfied(i)
                      /\ ~waits'[i].awaiting]_vars

\* A wait that has alternated checks and suspensions up to a satisfied check.
C16_Witness ==
    \E i \in 1..Len(waits) :
        /\ waits[i].steps = MaxSteps
        /\ waits[i].polls = MaxSteps + 1
        /\ waits[i].status = "Resolved"

NegationWaits ==
    {i \in 1..Len(waits') : waits'[i].region.class = "RegionNegation"}

\* C17: a wait on a RegionNegation tests base AND NOT subtract: it resolves
\* only at a check that finds it satisfied and suspends only after one that
\* does not; every step function it calls is the base region's, never the
\* subtracted region's; and it is rejected exactly when it resumes, not
\* cancelled, with a timeout (other than 0) that the elapsed time exceeds.
C17_NegationWaitsOnBaseStep ==
    [][\A i \in NegationWaits :
          LET base == waits'[i].region.region
              sub == waits'[i].region.negation
              in == isInRegion(base, pos') /\ ~isInRegion(sub, pos')
              wanted == IF waits'[i].kind = "entered" THEN in ELSE ~in
          IN  /\ NewlyResolved(i) => wanted
              /\ SuspendedAgain(i) => ~wanted
              /\ waits'[i].stepped = IF waits'[i].steps > 0 THEN {base} ELSE {}
              /\ sub \notin waits'[i].stepped
              /\ (waits'[i].status = "Rejected"
                    /\ (i <= Len(waits) => waits[i].status # "Rejected"))
                  <=> /\ ResumedPending(i)
                      /\ waits[i].timeout \notin {Undefined, 0}
                      /\ now - waits[i].start > waits[i].timeout]_vars

\* An enteredRegion wait on a negation resolved after awaiting the base's step.
C17_Witness ==
    \E i \in 1..Len(waits) :
        /\ waits[i].region = Shell
        /\ waits[i].kind = "entered"
        /\ waits[i].status = "Resolved"
        /\ waits[i].stepped = {PartA}

\* C14: a constructed BasePartRegion stores (m, m, m) with m the largest raw
\* component for a Ball, (r, y, r) with r the larger of raw x and z for a
\* Cylinder, and the raw size for a Block; constructing again from a stored
\* size stores the same size.
C14_ConstructorNormalisesSize ==
    /\ [](LET x == built.raw[1]
              y == built.raw[2]
              z == built.raw[3]
              size == built.region.size
          IN  /\ built.region.shape = "Ball" =>
                    /\ size[1] \in {x, y, z}
                    /\ size[1] >= x /\ size[1] >= y /\ size[1] >= z
                    /\ size[2] = size[1] /\ size[3] = size[1]
              /\ built.region.shape = "Cylinder" =>
                    /\ size[1] \in {x, z}
                    /\ size[1] >= x /\ size[1] >= z
                    /\ size[2] = y /\ size[3] = size[1]
              /\ built.region.shape = "Block" => size = built.raw)
    /\ [][built'.raw = built.region.size /\ built'.region.shape = built.region.shape
            => built'.region.size = built.region.size]_vars

\* A Cylinder built from a size whose X and Z differ, then built again from
\* its stored size.
C14_Witness ==
    /\ built.region.shape = "Cylinder"
    /\ built.raw = Vector3(3, 1, 3)
    /\ built.region.size = Vector3(3, 1, 3)

\* C15: for a Cylinder of size (ex, ey, ez), isInRegion of a point with local
\* coordinates (lx, ly, lz) is true exactly when |lx| <= ex/2, |lz| <= ex/2
\* and |ly / (ey/2)| <= 1.
C15_CylinderUsesHalfHeight ==
    (/\ probe.asked
     /\ probe.region.class = "BasePartRegion"
     /\ probe.region.shape = "Cylinder") =>
        LET loc == PointToObjectSpace(probe.region.location, probe.point)
            size == probe.region.size
        IN  probe.result <=>
                /\ 2 * Abs(loc[1]) <= size[1]
                /\ 2 * Abs(loc[3]) <= size[1]
                /\ 2 * Abs(loc[2]) <= size[2]

\* C13: two waits on one region do not interfere: a step that changes one
\* wait (its poll, suspension, rejection, resolution or cancellation) leaves
\* every other wait as it was, a call leaves the earlier waits as they were,
\* a wait's start time never changes, its active flag is cleared only by its
\* own cancellation, a settled or cancelled wait keeps its outcome, and the
\* region the waits were called on stays the region that was constructed.
C13_ConcurrentWaitsIndependent ==
    [][/\ Len(waits') >= Len(waits)
       /\ Len(waits') > Len(waits) => SubSeq(waits', 1, Len(waits)) = waits
       /\ \A i \in 1..Len(waits) :
            /\ waits'[i].region = waits[i].region
            /\ waits'[i].start = waits[i].start
            /\ waits'[i].active # waits[i].active =>
                  /\ waits[i].status = "Started"
                  /\ waits'[i].status = "Cancelled"
            /\ waits[i].status # "Started" => waits'[i].status = waits[i].status
            /\ waits'[i] # waits[i] =>
                  \A k \in 1..Len(waits) : k # i => waits'[k] = waits[k]
       /\ \A i \in 1..Len(waits') :
            /\ waits'[i].region \in PollRegions
            /\ waits'[i].region = waits'[1].region]_vars

\* Two waits called on one region at the same clock reading: the first was
\* rejected by its timeout, the second went on polling and resolved.
C13_Witness ==
    /\ Len(waits) = 2
    /\ waits[1].start = waits[2].start
    /\ waits[1].status = "Rejected"
    /\ waits[2].status = "Resolved"
    /\ waits[2].steps = MaxSteps
    /\ waits[2].active

\* C18: enteredRegion without timeout on a ball of radius r about the origin,
\* for a part that starts at distance d and comes one unit nearer in every
\* tick while the step function completes once a tick, resolves after
\* exactly d - r completions of the step function (none when d <= r), never
\* earlier and never later: 5 for r = 5 and d = 10.
C18_ResolvesWhenDistanceReachesRadius ==
    \A i \in 1..Len(waits) :
        LET radius == waits[i].region.size[1]
            dist == pos[1] + now
            needed == IF dist > radius THEN dist - radius ELSE 0
        IN  /\ waits[i].steps <= needed
            /\ waits[i].status = "Resolved" <=>
                  (waits[i].steps = needed /\ ~waits[i].awaiting)
            /\ waits[i].status \in {"Started", "Resolved"}

\* Radius 5, start at distance 10: resolved at distance 5, after 5 ticks and
\* 5 completions of the step function.
C18_Witness ==
    /\ Len(waits) = 1
    /\ waits[1].region.shape = "Ball"
    /\ waits[1].region.size = Vector3(5, 5, 5)
    /\ pos = Vector3(5, 0, 0)
    /\ now = 5
    /\ waits[1].steps = 5
    /\ waits[1].status = "Resolved"

\* C19: the timeout is tested when a suspension completes, before the
\* condition is tested again: a wait given a timeout and not cancelled that
\* resumes with the elapsed time above the timeout is rejected, makes no
\* further check and calls no further step, whatever the position of the
\* part; one that resumes with the elapsed time at or below the timeout is
\* not rejected; and a wait whose condition holds at the call is resolved in
\* the call, without a step, whatever its timeout.
C19_TimeoutTestedBeforeRecheck ==
    [][\A i \in 1..Len(waits') :
          /\ (ResumedPending(i) /\ waits[i].timeout # Undefined) =>
                IF now - waits[i].start > waits[i].timeout
                THEN /\ waits'[i].status = "Rejected"
                     /\ ~waits'[i].awaiting
                     /\ waits'[i].polls = waits[i].polls
                     /\ waits'[i].steps = waits[i].steps
                ELSE waits'[i].status # "Rejected"
          /\ (i > Len(waits) /\ ~NotSatisfied(i)) =>
                /\ waits'[i].status = "Resolved"
                /\ waits'[i].steps = 0]_vars

\* C20: with the clock advancing by one across every suspension, a wait that
\* was given a timeout T and is not cancelled is settled at the latest when
\* the step in flight at elapsed time T + 1 completes, so that it calls the
\* step function T + 1 times at most; a resolved or rejected wait is not
\* suspended and never changes again; a wait given no timeout is never
\* rejected.
C20_TimedWaitSettlesOnce ==
    /\ [](\A i \in 1..Len(waits) :
            /\ (waits[i].timeout # Undefined /\ waits[i].active) =>
                  waits[i].steps <= waits[i].timeout + 1
            /\ waits[i].timeout = Undefined => waits[i].status # "Rejected"
            /\ waits[i].status \in {"Resolved", "Rejected"} => ~waits[i].awaiting)
    /\ [][\A i \in 1..Len(waits) :
            waits[i].status \in {"Resolved", "Rejected"} => waits'[i] = waits[i]]_vars

====
